---- MODULE Spec2Model ----
(***************************************************************************)
(* Study dashboard (models.py, db.py, repo.py, app.py).                    *)
(*                                                                         *)
(* Two specifications share the variables:                                 *)
(*   Spec        the SQLite storage behind db.py / repo.py, driven by the  *)
(*               gateway operations, and the object graph load_domain      *)
(*               builds from it;                                           *)
(*   SpecDomain  the object graph of models.py built directly through its  *)
(*               constructors and add_* / belege methods.                  *)
(*                                                                         *)
(* Numbers.  Grades are decimals with one fractional digit (the forms use  *)
(* step 0.1); a grade is modelled as its number of tenths (17 = 1.7).      *)
(* A value rounded with round(x, 2) is modelled as its number of           *)
(* hundredths (170 = 1.70).  A float ratio a / b is modelled as the pair   *)
(* <<a, b>>.  An Optional value is <<>> (None) or <<v>>.                   *)
(***************************************************************************)
EXTENDS Integers, Sequences, FiniteSets, TLC

VARIABLES db, sg, ret, hist, con

vars == <<db, sg, ret, hist, con>>

\* ------------------------------------------------------------------------
\* Bounds of the model
\* ------------------------------------------------------------------------
MaxModulId == 2
MaxLeistungId == 1
MaxBelegungId == 1
MaxSemBelegungId == 2
MaxFortLeistungId == 2
MaxDomModule == 2
MaxDomLeistungen == 3
MaxDomSemester == 2
MaxDomBelegt == 1
MaxDomListe == 4

\* ------------------------------------------------------------------------
\* Optional values and sequence helpers
\* ------------------------------------------------------------------------
None == <<>>

Some(v) == <<v>>

IsNone(o) == o = <<>>

Val(o) == o[1]

RECURSIVE SumSeq(_)
SumSeq(s) == IF s = <<>> THEN 0 ELSE Head(s) + SumSeq(Tail(s))

RECURSIVE SelectIdx(_, _)
\* The indices i >= k (ascending) at which the flag sequence holds: the
\* positions a list comprehension [x for x in xs if test(x)] keeps.
SelectIdx(flags, k) ==
  IF k > Len(flags) THEN <<>>
  ELSE IF flags[k] THEN <<k>> \o SelectIdx(flags, k + 1)
       ELSE SelectIdx(flags, k + 1)

\* round(p / q, 2) for a quotient p / q counted in hundredths, p >= 0, q > 0:
\* the nearest integer, a tie going to the even neighbour.  (On floats the
\* outcome of an exact decimal tie depends on the binary representation of
\* the operand; the formulas below accept either neighbour at a tie.)
Round2(p, q) ==
  LET f == p \div q
      r == p % q
  IN  IF 2 * r < q THEN f
      ELSE IF 2 * r > q THEN f + 1
      ELSE IF f % 2 = 0 THEN f ELSE f + 1

\* ------------------------------------------------------------------------
\* models.py : Pruefungsform, Pruefungsleistung, Modul
\* ------------------------------------------------------------------------
PruefungsformNamen ==
  {"KLAUSUR", "HAUSARBEIT", "PORTFOLIO", "MUENDLICH", "PROJEKT"}

\* the enum member of a given name: Pruefungsform[name]
Pruefungsform(name) == <<"Pruefungsform", name>>

\* member.name
Pruefungsform_name(member) == member[2]

Pruefungsleistung(bezeichnung, datum, note, versuch_nr) ==
  [bezeichnung |-> bezeichnung, datum |-> datum, note |-> note,
   versuch_nr |-> versuch_nr]

Modul(name, kuerzel, ects, pruefungsform) ==
  [name |-> name, kuerzel |-> kuerzel, ects |-> ects,
   pruefungsform |-> pruefungsform, leistungen |-> <<>>]

\* noten = [p.note for p in self._leistungen if p.note is not None]
Noten(m) ==
  LET idx == SelectIdx([i \in 1..Len(m.leistungen) |->
                          ~IsNone(m.leistungen[i].note)], 1)
  IN  [i \in 1..Len(idx) |-> Val(m.leistungen[idx[i]].note)]

\* variant: ungraded exam results are counted in the divisor
Modul_durchschnitt_alle(m) ==
  LET noten == Noten(m)
  IN  IF noten # <<>> THEN Some(Round2(10 * SumSeq(noten), Len(m.leistungen)))
      ELSE None

\* round(mean(noten), 2) if noten else None; tenths / n -> hundredths
Modul_durchschnitt(m) ==
  LET noten == Noten(m)
  IN  IF noten # <<>> THEN Some(Round2(10 * SumSeq(noten), Len(noten)))
      ELSE None

\* variant: the threshold itself does not pass
Modul_ist_bestanden_strikt(m) ==
  LET d == Modul_durchschnitt(m)
  IN  ~IsNone(d) /\ Val(d) < 400

Modul_ist_bestanden(m) ==
  LET d == Modul_durchschnitt(m)
  IN  ~IsNone(d) /\ Val(d) <= 400

\* variant: no "offen" branch
Modul_status_ohneOffen(m) ==
  IF Modul_ist_bestanden(m) THEN "abgeschlossen" ELSE "laufend"

\* variant: "offen" decided on the grades instead of the exam results
Modul_status_notenleer(m) ==
  IF Noten(m) = <<>> THEN "offen"
  ELSE IF Modul_ist_bestanden(m) THEN "abgeschlossen" ELSE "laufend"

Modul_status(m) ==
  IF m.leistungen = <<>> THEN "offen"
  ELSE IF Modul_ist_bestanden(m) THEN "abgeschlossen" ELSE "laufend"

add_pruefungsleistung(m, leistung) ==
  [m EXCEPT !.leistungen = Append(@, leistung)]

\* ------------------------------------------------------------------------
\* models.py : Semester.  The two lists hold references to Modul objects;
\* a reference is the position of the object in the program's module list.
\* ------------------------------------------------------------------------
Semester(nummer, bezeichnung) ==
  [nummer |-> nummer, bezeichnung |-> bezeichnung,
   geplante_module |-> <<>>, bestandene_module |-> <<>>]

belege(sem, modul, art) ==
  IF art = "geplant"
    THEN [sem EXCEPT !.geplante_module = Append(@, modul)]
    ELSE [sem EXCEPT !.bestandene_module = Append(@, modul)]

geplante_ects(g, sem) ==
  SumSeq([i \in 1..Len(sem.geplante_module) |->
            g.module[sem.geplante_module[i]].ects])

\* variant: every module of the list counts, passed or not
erreichte_ects_alle(g, sem) ==
  SumSeq([i \in 1..Len(sem.bestandene_module) |->
            g.module[sem.bestandene_module[i]].ects])

erreichte_ects(g, sem) ==
  SumSeq([i \in 1..Len(sem.bestandene_module) |->
            IF Modul_ist_bestanden(g.module[sem.bestandene_module[i]])
              THEN g.module[sem.bestandene_module[i]].ects ELSE 0])

Semester_fortschritt(g, sem) ==
  IF geplante_ects(g, sem) # 0
    THEN <<erreichte_ects(g, sem), geplante_ects(g, sem)>>
    ELSE <<0, 1>>

\* ------------------------------------------------------------------------
\* models.py : Studiengang
\* ------------------------------------------------------------------------
Studiengang(name, gesamt_ects, regelstudienzeit) ==
  [name |-> name, gesamt_ects |-> gesamt_ects,
   regelstudienzeit |-> regelstudienzeit, semester |-> <<>>, module |-> <<>>]

add_semester(g, sem) == [g EXCEPT !.semester = Append(@, sem)]

add_modul(g, modul) == [g EXCEPT !.module = Append(@, modul)]

\* variant: earned credits summed over the semesters' lists
ects_bestanden_semester(g) ==
  SumSeq([i \in 1..Len(g.semester) |-> erreichte_ects(g, g.semester[i])])

ects_bestanden(g) ==
  SumSeq([i \in 1..Len(g.module) |->
            IF Modul_ist_bestanden(g.module[i]) THEN g.module[i].ects ELSE 0])

Studiengang_fortschritt(g) ==
  IF g.gesamt_ects # 0 THEN <<ects_bestanden(g), g.gesamt_ects>> ELSE <<0, 1>>

\* variant: the credits of modules without an average weigh in as well
Studiengang_durchschnitt_alleEcts(g) ==
  LET mit == SelectIdx([i \in 1..Len(g.module) |->
                          ~IsNone(Modul_durchschnitt(g.module[i]))], 1)
      ges_ects == SumSeq([i \in 1..Len(g.module) |-> g.module[i].ects])
      gew_sum == SumSeq([i \in 1..Len(mit) |->
                   Val(Modul_durchschnitt(g.module[mit[i]]))
                     * g.module[mit[i]].ects])
  IN  IF mit = <<>> THEN None
      ELSE IF ges_ects = 0 THEN None
      ELSE Some(Round2(gew_sum, ges_ects))

Studiengang_durchschnitt(g) ==
  LET mit == SelectIdx([i \in 1..Len(g.module) |->
                          ~IsNone(Modul_durchschnitt(g.module[i]))], 1)
      ges_ects == SumSeq([i \in 1..Len(mit) |-> g.module[mit[i]].ects])
      gew_sum == SumSeq([i \in 1..Len(mit) |->
                   Val(Modul_durchschnitt(g.module[mit[i]]))
                     * g.module[mit[i]].ects])
  IN  IF mit = <<>> THEN None
      ELSE IF ges_ects = 0 THEN None
      ELSE Some(Round2(gew_sum, ges_ects))

\* The list properties.  A Python list is an object: the value handed to
\* the caller is the list's elements together with whether it is a list
\* object of its own (eigen) or the owner's internal list itself.
\* variant: return self._leistungen
Modul_leistungen_intern(m) == [liste |-> m.leistungen, eigen |-> FALSE]

\* return list(self._leistungen)
Modul_leistungen(m) == [liste |-> m.leistungen, eigen |-> TRUE]

\* return list(self._semester)
Studiengang_semester(g) == [liste |-> g.semester, eigen |-> TRUE]

\* return list(self._module)
Studiengang_module(g) == [liste |-> g.module, eigen |-> TRUE]

\* ------------------------------------------------------------------------
\* Input domains
\* ------------------------------------------------------------------------
\* grades entered in the forms (tenths), or no grade yet
NotenDom == {None, Some(20), Some(30), Some(50)}

\* credit values handed to the Modul constructor
EctsDom == {0, 5, 10}

\* total target credits handed to the Studiengang constructor
GesamtEctsDom == {0, 180}

Arten == {"geplant", "aktuell"}

\* ------------------------------------------------------------------------
\* State
\*   db    the SQLite file (filled in below)
\*   sg    the Studiengang object the caller holds: None or Some(graph)
\*   ret   the last gateway call and whether it returned or raised
\*   hist  what the previous load_domain showed (passed modules, progress)
\* ------------------------------------------------------------------------
NoFile ==
  [schema |-> FALSE, studiengang |-> {}, semester |-> {}, modul |-> {},
   belegung |-> {}, pruefungsleistung |-> {}]

NoCall == [op |-> "none", ok |-> TRUE]

\* no connection is open, no transaction is under way
KeineVerbindung == [offen |-> 0, work |-> None]

G == Val(sg)

\* number of exam results held by the modules of graph g
AnzahlLeistungen(g) ==
  SumSeq([i \in 1..Len(g.module) |-> Len(g.module[i].leistungen)])

\* number of references held by the semesters of graph g
AnzahlBelegt(g) ==
  SumSeq([i \in 1..Len(g.semester) |->
            Len(g.semester[i].geplante_module)
              + Len(g.semester[i].bestandene_module)])

\* ------------------------------------------------------------------------
\* db.py : the SQLite file.  A table is the set of its rows; a full scan
\* without ORDER BY delivers the rows by ascending rowid (id).
\* ------------------------------------------------------------------------
Ids(rows) == {r.id : r \in rows}

\* INTEGER PRIMARY KEY without AUTOINCREMENT: largest rowid in use + 1
NextId(rows) ==
  IF rows = {} THEN 1
  ELSE (CHOOSE i \in Ids(rows) : \A j \in Ids(rows) : j <= i) + 1

RECURSIVE ById(_)
\* the rows of a table in scan order
ById(rows) ==
  IF rows = {} THEN <<>>
  ELSE LET r == CHOOSE x \in rows : \A y \in rows : x.id <= y.id
       IN  <<r>> \o ById(rows \ {r})

\* cursor.fetchone(): the first row of the scan, or None
FetchOne(rows) == IF rows = {} THEN None ELSE Some(ById(rows)[1])

\* ON DELETE CASCADE with PRAGMA foreign_keys = ON (connect): deleting the
\* modul rows with ids gone removes the rows of belegung and
\* pruefungsleistung that reference them.
CascadeModul(d, gone) ==
  [d EXCEPT !.modul = {m \in @ : m.id \notin gone},
            !.belegung = {b \in @ : b.modul_id \notin gone},
            !.pruefungsleistung = {p \in @ : p.modul_id \notin gone}]

\* belegung: CHECK(art IN ('geplant','aktuell'))
CheckArt(art) == art \in {"geplant", "aktuell"}

\* belegung: UNIQUE(semester_id, modul_id, art)
UniqueBelegung(rows) ==
  \A a, b \in rows :
    (a.semester_id = b.semester_id /\ a.modul_id = b.modul_id /\ a.art = b.art)
      => a = b

\* "Semester {nr}"
SemesterBezeichnung(nr) == <<"Semester", nr>>

\* variant: the default program is inserted without looking at the table
init_if_needed_immer(d) ==
  LET d1 == [d EXCEPT !.schema = TRUE]
      sg_id == NextId(d1.studiengang)
  IN  [d1 EXCEPT
         !.studiengang = @ \cup {[id |-> sg_id,
                                  name |-> "Bachelor Cybersecurity",
                                  gesamt_ects |-> 180,
                                  regelstudienzeit |-> 8]},
         !.semester = @ \cup
            {[id |-> NextId(d1.semester) + nr - 1, nr |-> nr,
              bezeichnung |-> SemesterBezeichnung(nr),
              studiengang_id |-> sg_id] : nr \in 1..8}]

\* init_if_needed: the DDL script, then the default program with its 8
\* semesters when the studiengang table is empty; one transaction.
init_if_needed(d) ==
  LET d1 == [d EXCEPT !.schema = TRUE]
  IN  IF d1.studiengang = {}
        THEN LET sg_id == NextId(d1.studiengang)
             IN  [d1 EXCEPT
                    !.studiengang = {[id |-> sg_id,
                                      name |-> "Bachelor Cybersecurity",
                                      gesamt_ects |-> 180,
                                      regelstudienzeit |-> 8]},
                    !.semester = @ \cup
                       {[id |-> NextId(d1.semester) + nr - 1, nr |-> nr,
                         bezeichnung |-> SemesterBezeichnung(nr),
                         studiengang_id |-> sg_id] : nr \in 1..8}]
        ELSE d1

\* ------------------------------------------------------------------------
\* repo.py : load_domain
\* ------------------------------------------------------------------------
\* The orders in which "SELECT * FROM pruefungsleistung ORDER BY versuch_nr"
\* may deliver the rows: ascending versuch_nr, rows of equal versuch_nr in
\* an order the statement leaves open.
LeistungOrders(d) ==
  LET rows == d.pruefungsleistung
      n == Cardinality(rows)
  IN  {o \in [1..n -> rows] :
         /\ \A i, j \in 1..n : i # j => o[i] # o[j]
         /\ \A i, j \in 1..n : i < j => o[i].versuch_nr <= o[j].versuch_nr}

\* position of the row with the given id in a scan, 0 when there is none
PosOf(scan, id) ==
  IF \E i \in 1..Len(scan) : scan[i].id = id
    THEN CHOOSE i \in 1..Len(scan) : scan[i].id = id
    ELSE 0

RECURSIVE WireBelegungen(_, _, _, _)
\* for r in SELECT * FROM belegung: sem_map[..].belege(mod_map[..], art)
WireBelegungen(g, scan, semScan, modScan) ==
  IF scan = <<>> THEN g
  ELSE LET r == Head(scan)
           s == PosOf(semScan, r.semester_id)
           m == PosOf(modScan, r.modul_id)
       IN  WireBelegungen([g EXCEPT !.semester[s] = belege(@, m, r.art)],
                          Tail(scan), semScan, modScan)

RECURSIVE WireLeistungen(_, _, _)
\* for r in SELECT * FROM pruefungsleistung ORDER BY versuch_nr:
\*   mod_map[..].add_pruefungsleistung(Pruefungsleistung(...))
WireLeistungen(g, scan, modScan) ==
  IF scan = <<>> THEN g
  ELSE LET r == Head(scan)
           m == PosOf(modScan, r.modul_id)
       IN  WireLeistungen(
             [g EXCEPT !.module[m] = add_pruefungsleistung(@,
                Pruefungsleistung(r.bezeichnung, r.datum, r.note, r.versuch_nr))],
             Tail(scan), modScan)

RECURSIVE BySemNr(_)
\* SELECT * FROM semester ... ORDER BY nr (rows of equal nr by rowid)
BySemNr(rows) ==
  IF rows = {} THEN <<>>
  ELSE LET r == CHOOSE x \in rows :
                  \A y \in rows : x.nr < y.nr \/ (x.nr = y.nr /\ x.id <= y.id)
       IN  <<r>> \o BySemNr(rows \ {r})

\* variant: rows whose semester or module is not in the maps are skipped
load_domain_nachsichtig(d, plOrder) ==
  IF ~d.schema \/ d.studiengang = {} THEN [ok |-> FALSE, value |-> None]
  ELSE
    LET sg_row == Val(FetchOne(d.studiengang))
        semScan == BySemNr({r \in d.semester : r.studiengang_id = sg_row.id})
        modScan == ById({r \in d.modul : r.studiengang_id = sg_row.id})
        g0 == Studiengang(sg_row.name, sg_row.gesamt_ects, sg_row.regelstudienzeit)
        g1 == [g0 EXCEPT
                 !.semester = [i \in 1..Len(semScan) |->
                    Semester(semScan[i].nr, semScan[i].bezeichnung)],
                 !.module = [i \in 1..Len(modScan) |->
                    Modul(modScan[i].name, modScan[i].kuerzel, modScan[i].ects,
                          Pruefungsform(modScan[i].pruefungsform))]]
        bel == SelectSeq(ById(d.belegung), LAMBDA b :
                 PosOf(semScan, b.semester_id) # 0 /\ PosOf(modScan, b.modul_id) # 0)
        pls == SelectSeq(plOrder, LAMBDA q : PosOf(modScan, q.modul_id) # 0)
    IN  [ok |-> TRUE,
         value |-> Some(WireLeistungen(
                     WireBelegungen(g1, bel, semScan, modScan), pls, modScan))]

\* load_domain on file d when the exam results arrive in order plOrder:
\* [ok |-> FALSE] when it raises, else [ok |-> TRUE, value |-> the graph].
load_domain(d, plOrder) ==
  IF ~d.schema \/ d.studiengang = {} THEN [ok |-> FALSE, value |-> None]
  ELSE
    LET sg_row == Val(FetchOne(d.studiengang))
        semScan == BySemNr({r \in d.semester : r.studiengang_id = sg_row.id})
        modScan == ById({r \in d.modul : r.studiengang_id = sg_row.id})
        g0 == Studiengang(sg_row.name, sg_row.gesamt_ects, sg_row.regelstudienzeit)
        g1 == [g0 EXCEPT
                 !.semester = [i \in 1..Len(semScan) |->
                    Semester(semScan[i].nr, semScan[i].bezeichnung)],
                 !.module = [i \in 1..Len(modScan) |->
                    Modul(modScan[i].name, modScan[i].kuerzel, modScan[i].ects,
                          Pruefungsform(modScan[i].pruefungsform))]]
        keyError ==
          \/ \E m \in d.modul : m.pruefungsform \notin PruefungsformNamen
          \/ \E b \in d.belegung :
               PosOf(semScan, b.semester_id) = 0 \/ PosOf(modScan, b.modul_id) = 0
          \/ \E p \in d.pruefungsleistung : PosOf(modScan, p.modul_id) = 0
    IN  IF keyError THEN [ok |-> FALSE, value |-> None]
        ELSE [ok |-> TRUE,
              value |-> Some(WireLeistungen(
                          WireBelegungen(g1, ById(d.belegung), semScan, modScan),
                          plOrder, modScan))]

\* ------------------------------------------------------------------------
\* repo.py : the write operations.  Each yields [ok, db]: whether the call
\* returned (TRUE) or raised (FALSE), and the file afterwards.  A raise
\* inside "with con:" rolls the transaction back.
\* ------------------------------------------------------------------------
Return(d) == [ok |-> TRUE, db |-> d]

Raise(d) == [ok |-> FALSE, db |-> d]

\* SELECT id FROM modul WHERE kuerzel=? [LIMIT 1] ... fetchone()
ModulByKuerzel(d, kuerzel) == FetchOne({m \in d.modul : m.kuerzel = kuerzel})

\* SELECT id FROM semester WHERE nr=? LIMIT 1 ... fetchone()
SemesterByNr(d, nr) == FetchOne({r \in d.semester : r.nr = nr})

create_modul(d, name, kuerzel, ects, pruefungsform) ==
  IF ~d.schema \/ d.studiengang = {} THEN Raise(d)
  ELSE LET sg_id == Val(FetchOne(d.studiengang)).id
       IN  Return([d EXCEPT !.modul = @ \cup
             {[id |-> NextId(d.modul), name |-> name, kuerzel |-> kuerzel,
               ects |-> ects, pruefungsform |-> Pruefungsform_name(pruefungsform),
               studiengang_id |-> sg_id]}])

create_pruefungsleistung(d, modul_kuerzel, bezeichnung, datum, note, versuch_nr) ==
  IF ~d.schema \/ IsNone(ModulByKuerzel(d, modul_kuerzel)) THEN Raise(d)
  ELSE LET mod_id == Val(ModulByKuerzel(d, modul_kuerzel)).id
       IN  Return([d EXCEPT !.pruefungsleistung = @ \cup
             {[id |-> NextId(d.pruefungsleistung), bezeichnung |-> bezeichnung,
               datum |-> datum, note |-> note, versuch_nr |-> versuch_nr,
               modul_id |-> mod_id]}])

\* variant: plain INSERT, a row that violates CHECK or UNIQUE raises
create_belegung_ohneIgnore(d, semester_nr, modul_kuerzel, art, kommentar) ==
  LET semRows == {r \in d.semester :
                    r.nr = semester_nr /\ r.studiengang_id \in Ids(d.studiengang)}
  IN  IF ~d.schema \/ semRows = {} \/ IsNone(ModulByKuerzel(d, modul_kuerzel))
        THEN Raise(d)
        ELSE LET row == [id |-> NextId(d.belegung), art |-> art,
                         kommentar |-> kommentar,
                         semester_id |-> Val(FetchOne(semRows)).id,
                         modul_id |-> Val(ModulByKuerzel(d, modul_kuerzel)).id]
             IN  IF CheckArt(art) /\ UniqueBelegung(d.belegung \cup {row})
                   THEN Return([d EXCEPT !.belegung = @ \cup {row}])
                   ELSE Raise(d)

create_belegung(d, semester_nr, modul_kuerzel, art, kommentar) ==
  LET semRows == {r \in d.semester :
                    r.nr = semester_nr /\ r.studiengang_id \in Ids(d.studiengang)}
  IN  IF ~d.schema \/ semRows = {} \/ IsNone(ModulByKuerzel(d, modul_kuerzel))
        THEN Raise(d)
        ELSE LET sem_id == Val(FetchOne(semRows)).id
                 mod_id == Val(ModulByKuerzel(d, modul_kuerzel)).id
                 row == [id |-> NextId(d.belegung), art |-> art,
                         kommentar |-> kommentar, semester_id |-> sem_id,
                         modul_id |-> mod_id]
             IN  \* INSERT OR IGNORE: a row that violates CHECK or UNIQUE is skipped
                 IF CheckArt(art) /\ UniqueBelegung(d.belegung \cup {row})
                   THEN Return([d EXCEPT !.belegung = @ \cup {row}])
                   ELSE Return(d)

\* _get_modul_id: the id, or None when it raises ValueError
get_modul_id(d, kuerzel) ==
  IF ~d.schema \/ IsNone(ModulByKuerzel(d, kuerzel)) THEN None
  ELSE Some(Val(ModulByKuerzel(d, kuerzel)).id)

\* an argument left at its default None changes nothing
Upd(old, arg) == IF IsNone(arg) THEN old ELSE Val(arg)

update_modul(d, kuerzel, name, new_kuerzel, ects, pruefungsform) ==
  IF IsNone(get_modul_id(d, kuerzel)) THEN Raise(d)
  ELSE LET mod_id == Val(get_modul_id(d, kuerzel))
       IN  IF IsNone(name) /\ IsNone(new_kuerzel) /\ IsNone(ects)
                /\ IsNone(pruefungsform)
             THEN Return(d)
             ELSE Return([d EXCEPT !.modul =
                    {IF m.id = mod_id
                       THEN [m EXCEPT !.name = Upd(@, name),
                                      !.kuerzel = Upd(@, new_kuerzel),
                                      !.ects = Upd(@, ects),
                                      !.pruefungsform =
                                         IF IsNone(pruefungsform) THEN @
                                         ELSE Pruefungsform_name(Val(pruefungsform))]
                       ELSE m : m \in @}])

\* variant: the connection without PRAGMA foreign_keys = ON, no cascade
delete_modul_ohneCascade(d, kuerzel) ==
  IF IsNone(get_modul_id(d, kuerzel)) THEN Raise(d)
  ELSE Return([d EXCEPT !.modul =
                 {m \in @ : m.id # Val(get_modul_id(d, kuerzel))}])

delete_modul(d, kuerzel) ==
  IF IsNone(get_modul_id(d, kuerzel)) THEN Raise(d)
  ELSE Return(CascadeModul(d, {Val(get_modul_id(d, kuerzel))}))

\* "if note is not None" / "if datum is not None": an argument None is
\* not put into the SET list
update_pruefungsleistung(d, pl_id, bezeichnung, datum, note, versuch_nr) ==
  IF IsNone(bezeichnung) /\ IsNone(datum) /\ IsNone(note) /\ IsNone(versuch_nr)
    THEN Return(d)
  ELSE IF ~d.schema THEN Raise(d)
  ELSE Return([d EXCEPT !.pruefungsleistung =
         {IF p.id = pl_id
            THEN [p EXCEPT !.bezeichnung = Upd(@, bezeichnung),
                           !.datum = IF IsNone(datum) THEN @ ELSE datum,
                           !.note = IF IsNone(note) THEN @ ELSE note,
                           !.versuch_nr = Upd(@, versuch_nr)]
            ELSE p : p \in @}])

delete_pruefungsleistung(d, pl_id) ==
  IF ~d.schema THEN Raise(d)
  ELSE Return([d EXCEPT !.pruefungsleistung = {p \in @ : p.id # pl_id}])

update_belegung(d, semester_nr, modul_kuerzel, art, kommentar) ==
  IF ~d.schema \/ IsNone(SemesterByNr(d, semester_nr))
       \/ IsNone(ModulByKuerzel(d, modul_kuerzel))
    THEN Raise(d)
  ELSE LET sem_id == Val(SemesterByNr(d, semester_nr)).id
           mod_id == Val(ModulByKuerzel(d, modul_kuerzel)).id
           hit(b) == b.semester_id = sem_id /\ b.modul_id = mod_id
           neu == {IF hit(b)
                     THEN [b EXCEPT !.art = Upd(@, art),
                                    !.kommentar = Upd(@, kommentar)]
                     ELSE b : b \in d.belegung}
       IN  IF IsNone(art) /\ IsNone(kommentar) THEN Return(d)
           ELSE IF (\A b \in neu : CheckArt(b.art)) /\ UniqueBelegung(neu)
             THEN Return([d EXCEPT !.belegung = neu])
             ELSE Raise(d)  \* sqlite3.IntegrityError, rolled back

delete_belegung(d, semester_nr, modul_kuerzel, art) ==
  IF ~d.schema \/ IsNone(SemesterByNr(d, semester_nr))
       \/ IsNone(ModulByKuerzel(d, modul_kuerzel))
    THEN Raise(d)
  ELSE LET sem_id == Val(SemesterByNr(d, semester_nr)).id
           mod_id == Val(ModulByKuerzel(d, modul_kuerzel)).id
       IN  Return([d EXCEPT !.belegung =
             {b \in @ : ~(b.semester_id = sem_id /\ b.modul_id = mod_id
                            /\ b.art = art)}])

\* ------------------------------------------------------------------------
\* The gateway driven by script runs (app.py).  A script run makes one
\* call; what it loaded or got back is gone when the run ends.
\* ------------------------------------------------------------------------
Opt(S) == {None} \cup {Some(x) : x \in S}

Init ==
  /\ db = NoFile
  /\ sg = None
  /\ ret = NoCall
  /\ hist = None
  /\ con = KeineVerbindung

\* no call is under way: the script is about to run
Idle == ret = NoCall

\* the effect of a write call with outcome res
Call(op, res) ==
  /\ Idle
  /\ db' = res.db
  /\ ret' = [op |-> op, ok |-> res.ok]
  /\ UNCHANGED <<sg, hist, con>>

\* the script run ends: its locals (the graph, the outcome) are gone
EndRun ==
  /\ ~Idle
  /\ ret' = NoCall
  /\ sg' = None
  /\ UNCHANGED <<db, hist, con>>

InitIfNeeded == Call("init_if_needed", Return(init_if_needed(db)))

LoadDomain ==
  \E o \in LeistungOrders(db) :
    LET res == load_domain(db, o)
    IN  /\ Idle
        /\ sg' = res.value
        /\ ret' = [op |-> "load_domain", ok |-> res.ok]
        /\ UNCHANGED <<db, hist, con>>

CreateModul(kuerzel, ects) ==
  Call("create_modul",
       create_modul(db, "Algorithms", kuerzel, ects, Pruefungsform("KLAUSUR")))

CreatePruefungsleistung(kuerzel, note, versuch_nr) ==
  Call("create_pruefungsleistung",
       create_pruefungsleistung(db, kuerzel, "Klausur", None, note, versuch_nr))

CreateBelegung(semester_nr, kuerzel, art, kommentar) ==
  Call("create_belegung", create_belegung(db, semester_nr, kuerzel, art, kommentar))

UpdateModul(kuerzel, new_kuerzel, ects) ==
  Call("update_modul", update_modul(db, kuerzel, None, new_kuerzel, ects, None))

DeleteModul(kuerzel) == Call("delete_modul", delete_modul(db, kuerzel))

UpdatePruefungsleistung(pl_id, note, versuch_nr) ==
  Call("update_pruefungsleistung",
       update_pruefungsleistung(db, pl_id, None, None, note, versuch_nr))

DeletePruefungsleistung(pl_id) ==
  Call("delete_pruefungsleistung", delete_pruefungsleistung(db, pl_id))

UpdateBelegung(semester_nr, kuerzel, art, kommentar) ==
  Call("update_belegung", update_belegung(db, semester_nr, kuerzel, art, kommentar))

DeleteBelegung(semester_nr, kuerzel, art) ==
  Call("delete_belegung", delete_belegung(db, semester_nr, kuerzel, art))

\* ids stay within the bounds of the model
Capped(maxModul, maxLeistung, maxBelegung) ==
  /\ Ids(db'.modul) \subseteq 1..maxModul
  /\ Ids(db'.pruefungsleistung) \subseteq 1..maxLeistung
  /\ Ids(db'.belegung) \subseteq 1..maxBelegung

\* ------------------------------------------------------------------------
\* Spec : every operation, with arguments that exist and arguments that
\* do not (semester 9, kind "bestanden", a code or id not in storage).
\* ------------------------------------------------------------------------
KuerzelDom == {"ALG1", "MAT1"}

EctsForm == {5, 10}

NotenForm == {None, Some(17), Some(50)}

VersuchDom == {1, 2}

KommentarDom == {"", "Wdh"}

\* (semester number, kind) pairs: the stored ones and two that are not
BelegungDom ==
  ({1, 2} \X {"geplant", "aktuell"}) \cup {<<9, "geplant">>, <<1, "bestanden">>}

\* (art, kommentar) keyword arguments of update_belegung
BelegungUpdDom ==
  {<<None, None>>, <<None, Some("")>>, <<None, Some("Wdh")>>,
   <<Some("geplant"), None>>, <<Some("aktuell"), None>>,
   <<Some("bestanden"), None>>, <<Some("aktuell"), Some("Wdh")>>}

Next ==
  \/ EndRun
  \/ InitIfNeeded
  \/ LoadDomain
  \/ \E k \in KuerzelDom, e \in EctsForm :
       CreateModul(k, e) /\ Capped(MaxModulId, MaxLeistungId, MaxBelegungId)
  \/ \E k \in KuerzelDom, n \in NotenForm, v \in VersuchDom :
       /\ CreatePruefungsleistung(k, n, v)
       /\ Capped(MaxModulId, MaxLeistungId, MaxBelegungId)
  \/ \E sa \in BelegungDom, k \in KuerzelDom, c \in KommentarDom :
       /\ CreateBelegung(sa[1], k, sa[2], c)
       /\ Capped(MaxModulId, MaxLeistungId, MaxBelegungId)
  \/ \E k \in KuerzelDom, nk \in Opt(KuerzelDom), e \in Opt(EctsForm) :
       UpdateModul(k, nk, e)
  \/ \E k \in KuerzelDom : DeleteModul(k)
  \/ \E id \in 1..MaxLeistungId + 1, n \in NotenForm, v \in Opt(VersuchDom) :
       UpdatePruefungsleistung(id, n, v)
  \/ \E id \in 1..MaxLeistungId + 1 : DeletePruefungsleistung(id)
  \/ \E nr \in {1, 2, 9}, k \in KuerzelDom, u \in BelegungUpdDom :
       UpdateBelegung(nr, k, u[1], u[2])
  \/ \E sa \in BelegungDom, k \in KuerzelDom : DeleteBelegung(sa[1], k, sa[2])

Spec == Init /\ [][Next]_vars

\* ------------------------------------------------------------------------
\* SpecSemester : every operation, on arguments that exist, with room for
\* two enrollments (planned in one semester, current in another).
\* ------------------------------------------------------------------------
NotenBenotet == {Some(17), Some(50)}

Next_Semester ==
  \/ EndRun
  \/ InitIfNeeded
  \/ LoadDomain
  \/ \E k \in KuerzelDom, e \in EctsForm :
       CreateModul(k, e) /\ Capped(MaxModulId, MaxLeistungId, MaxSemBelegungId)
  \/ \E k \in KuerzelDom, n \in NotenBenotet :
       /\ CreatePruefungsleistung(k, n, 1)
       /\ Capped(MaxModulId, MaxLeistungId, MaxSemBelegungId)
  \/ \E nr \in {1, 2}, k \in KuerzelDom, a \in Arten :
       /\ CreateBelegung(nr, k, a, "")
       /\ Capped(MaxModulId, MaxLeistungId, MaxSemBelegungId)
  \/ \E k \in KuerzelDom, e \in EctsForm : UpdateModul(k, None, Some(e))
  \/ \E k \in KuerzelDom : DeleteModul(k)
  \/ \E id \in 1..MaxLeistungId, n \in NotenBenotet :
       UpdatePruefungsleistung(id, n, None)
  \/ \E id \in 1..MaxLeistungId : DeletePruefungsleistung(id)
  \/ \E nr \in {1, 2}, k \in KuerzelDom, a \in Arten :
       UpdateBelegung(nr, k, Some(a), None)
  \/ \E nr \in {1, 2}, k \in KuerzelDom, a \in Arten : DeleteBelegung(nr, k, a)

SpecSemester == Init /\ [][Next_Semester]_vars

\* ------------------------------------------------------------------------
\* SpecFortschritt : every operation, with room for two exam results, and
\* a record of what the previous load of the dashboard showed.
\* ------------------------------------------------------------------------
\* the (id, credits) of the modul rows that graph g shows as passed
Bestandene(d, g) ==
  {<<m.id, m.ects>> : m \in {x \in d.modul :
      Modul_ist_bestanden(g.module[PosOf(ById(d.modul), x.id)])}}

LoadDomainVerlauf ==
  \E o \in LeistungOrders(db) :
    LET res == load_domain(db, o)
    IN  /\ Idle
        /\ sg' = res.value
        /\ ret' = [op |-> "load_domain", ok |-> res.ok]
        /\ hist' = IF res.ok
                     THEN Some([bestanden |-> Bestandene(db, Val(res.value)),
                                fortschritt |->
                                  Studiengang_fortschritt(Val(res.value))])
                     ELSE hist
        /\ UNCHANGED <<db, con>>

Next_Fortschritt ==
  \/ EndRun
  \/ InitIfNeeded
  \/ LoadDomainVerlauf
  \/ \E k \in KuerzelDom, e \in EctsForm :
       CreateModul(k, e) /\ Capped(MaxModulId, MaxFortLeistungId, MaxSemBelegungId)
  \/ \E k \in KuerzelDom :
       /\ CreatePruefungsleistung(k, Some(17), 1)
       /\ Capped(MaxModulId, MaxFortLeistungId, MaxSemBelegungId)
  \/ \E nr \in {1, 2} :
       /\ CreateBelegung(nr, "ALG1", "aktuell", "")
       /\ Capped(MaxModulId, MaxFortLeistungId, MaxSemBelegungId)
  \/ \E k \in KuerzelDom, e \in EctsForm : UpdateModul(k, None, Some(e))
  \/ \E k \in KuerzelDom : DeleteModul(k)
  \/ \E id \in 1..MaxFortLeistungId : DeletePruefungsleistung(id)

SpecFortschritt == Init /\ [][Next_Fortschritt]_vars

\* ------------------------------------------------------------------------
\* SpecBelegung : the enrollment operations, every argument combination;
\* hist keeps the file before the call and the call's arguments until the
\* script run ends.
\* ------------------------------------------------------------------------
\* a write call with outcome res, remembered with its arguments
Aufruf(op, args, res) ==
  /\ Idle
  /\ db' = res.db
  /\ ret' = [op |-> op, ok |-> res.ok]
  /\ hist' = Some([vor |-> db, args |-> args])
  /\ UNCHANGED <<sg, con>>

\* the script run ends: the graph, the outcome and the arguments are gone
EndRunAufruf ==
  /\ ~Idle
  /\ ret' = NoCall
  /\ sg' = None
  /\ hist' = None
  /\ UNCHANGED <<db, con>>

CreateBelegungAufruf(semester_nr, kuerzel, art, kommentar) ==
  Aufruf("create_belegung", <<semester_nr, kuerzel, art, kommentar>>,
         create_belegung(db, semester_nr, kuerzel, art, kommentar))

UpdateBelegungAufruf(semester_nr, kuerzel, art, kommentar) ==
  Aufruf("update_belegung", <<semester_nr, kuerzel, art, kommentar>>,
         update_belegung(db, semester_nr, kuerzel, art, kommentar))

DeleteBelegungAufruf(semester_nr, kuerzel, art) ==
  Aufruf("delete_belegung", <<semester_nr, kuerzel, art>>,
         delete_belegung(db, semester_nr, kuerzel, art))

Next_Belegung ==
  \/ EndRunAufruf
  \/ InitIfNeeded
  \/ LoadDomain
  \/ \E k \in KuerzelDom :
       CreateModul(k, 5) /\ Capped(MaxModulId, 0, MaxSemBelegungId)
  \/ \E k \in KuerzelDom, nk \in KuerzelDom : UpdateModul(k, Some(nk), None)
  \/ \E k \in KuerzelDom : DeleteModul(k)
  \/ \E sa \in BelegungDom, k \in KuerzelDom, c \in KommentarDom :
       /\ CreateBelegungAufruf(sa[1], k, sa[2], c)
       /\ Capped(MaxModulId, 0, MaxSemBelegungId)
  \/ \E nr \in {1, 2, 9}, k \in KuerzelDom, u \in BelegungUpdDom :
       UpdateBelegungAufruf(nr, k, u[1], u[2])
  \/ \E sa \in BelegungDom, k \in KuerzelDom :
       DeleteBelegungAufruf(sa[1], k, sa[2])

SpecBelegung == Init /\ [][Next_Belegung]_vars

\* ------------------------------------------------------------------------
\* SpecIntegritaet : the gateway on the file it created itself (hist is
\* None) and on files that were written past the gateway, by a connection
\* without PRAGMA foreign_keys = ON (hist is Some("fremd")); such a file
\* may hold rows whose semester or module is missing.
\* ------------------------------------------------------------------------
FremdeModule ==
  {[id |-> 1, name |-> "Algorithms", kuerzel |-> "ALG1", ects |-> 5,
    pruefungsform |-> "KLAUSUR", studiengang_id |-> 1],
   [id |-> 2, name |-> "Algorithms", kuerzel |-> "MAT1", ects |-> 5,
    pruefungsform |-> "KLAUSUR", studiengang_id |-> 2]}

FremdeBelegungen ==
  {[id |-> 1, art |-> "geplant", kommentar |-> "", semester_id |-> s,
    modul_id |-> m] : s \in {1, 9}, m \in {1, 2, 3}}

FremdeLeistungen ==
  {[id |-> 1, bezeichnung |-> "Klausur", datum |-> None, note |-> Some(17),
    versuch_nr |-> 1, modul_id |-> m] : m \in {1, 2, 3}}

\* at most one element of S
Hoechstens1(S) == {{}} \cup {{x} : x \in S}

FremdeDateien ==
  {[init_if_needed(NoFile) EXCEPT !.modul = M, !.belegung = B,
                                  !.pruefungsleistung = P] :
     M \in SUBSET FremdeModule, B \in Hoechstens1(FremdeBelegungen),
     P \in Hoechstens1(FremdeLeistungen)}

InitIntegritaet ==
  /\ \/ db = NoFile /\ hist = None
     \/ db \in FremdeDateien /\ hist = Some("fremd")
  /\ sg = None
  /\ ret = NoCall
  /\ con = KeineVerbindung

Next_Integritaet ==
  \/ EndRun
  \/ InitIfNeeded
  \/ LoadDomain
  \/ \E k \in KuerzelDom :
       CreateModul(k, 5) /\ Capped(MaxModulId, MaxLeistungId, MaxBelegungId)
  \/ \E k \in KuerzelDom, nk \in KuerzelDom : UpdateModul(k, Some(nk), None)
  \/ \E k \in KuerzelDom : DeleteModul(k)
  \/ \E k \in KuerzelDom :
       /\ CreatePruefungsleistung(k, Some(17), 1)
       /\ Capped(MaxModulId, MaxLeistungId, MaxBelegungId)
  \/ \E id \in 1..MaxLeistungId : DeletePruefungsleistung(id)
  \/ \E nr \in {1, 2}, k \in KuerzelDom, a \in Arten :
       /\ CreateBelegung(nr, k, a, "")
       /\ Capped(MaxModulId, MaxLeistungId, MaxBelegungId)
  \/ \E nr \in {1, 2}, k \in KuerzelDom, a \in Arten : DeleteBelegung(nr, k, a)

SpecIntegritaet == InitIntegritaet /\ [][Next_Integritaet]_vars

\* ------------------------------------------------------------------------
\* SpecRundreise : create_modul, then create_pruefungsleistung for the same
\* code, then load_domain.  hist keeps the arguments of the two calls while
\* nothing else has been written since.
\* ------------------------------------------------------------------------
\* a write call with outcome res that leaves h in hist
Merken(op, res, h) ==
  /\ Idle
  /\ db' = res.db
  /\ ret' = [op |-> op, ok |-> res.ok]
  /\ hist' = h
  /\ UNCHANGED <<sg, con>>

CreateModulMerken(kuerzel, ects) ==
  LET res == create_modul(db, "Algorithms", kuerzel, ects, Pruefungsform("KLAUSUR"))
  IN  Merken("create_modul", res,
             IF res.ok
               THEN Some([modul |-> <<"Algorithms", kuerzel, ects, "KLAUSUR">>,
                          leistung |-> None])
               ELSE None)

CreatePruefungsleistungMerken(kuerzel, note, versuch_nr) ==
  LET res == create_pruefungsleistung(db, kuerzel, "Klausur", None, note, versuch_nr)
  IN  Merken("create_pruefungsleistung", res,
             IF /\ res.ok
                /\ ~IsNone(hist)
                /\ Val(hist).modul[2] = kuerzel
                /\ IsNone(Val(hist).leistung)
               THEN Some([Val(hist) EXCEPT
                            !.leistung = Some(<<"Klausur", None, note, versuch_nr>>)])
               ELSE None)

DeleteModulMerken(kuerzel) ==
  Merken("delete_modul", delete_modul(db, kuerzel), None)

Next_Rundreise ==
  \/ EndRun
  \/ InitIfNeeded
  \/ LoadDomain
  \/ \E k \in KuerzelDom, e \in EctsForm :
       CreateModulMerken(k, e) /\ Capped(MaxModulId, MaxFortLeistungId, 0)
  \/ \E k \in KuerzelDom, n \in NotenForm, v \in VersuchDom :
       /\ CreatePruefungsleistungMerken(k, n, v)
       /\ Capped(MaxModulId, MaxFortLeistungId, 0)
  \/ \E k \in KuerzelDom : DeleteModulMerken(k)

SpecRundreise == Init /\ [][Next_Rundreise]_vars

\* ------------------------------------------------------------------------
\* SpecLeistung : modules and exam results, with room for two exam results
\* that differ in grade and may share the attempt number.
\* ------------------------------------------------------------------------
Next_Leistung ==
  \/ EndRun
  \/ InitIfNeeded
  \/ LoadDomain
  \/ \E k \in KuerzelDom :
       CreateModul(k, 5) /\ Capped(MaxModulId, MaxFortLeistungId, 0)
  \/ \E k \in KuerzelDom : DeleteModul(k)
  \/ \E k \in KuerzelDom, n \in NotenBenotet, v \in VersuchDom :
       /\ CreatePruefungsleistung(k, n, v)
       /\ Capped(MaxModulId, MaxFortLeistungId, 0)
  \/ \E id \in 1..MaxFortLeistungId, v \in VersuchDom :
       UpdatePruefungsleistung(id, None, Some(v))
  \/ \E id \in 1..MaxFortLeistungId : DeletePruefungsleistung(id)

SpecLeistung == Init /\ [][Next_Leistung]_vars

\* ------------------------------------------------------------------------
\* SpecVerbindung : the gateway operations step by step.  An operation is
\* the sequence of its instructions: "connect" (con = connect(), try:),
\* "with" (with con:), the statements, "end_with" (commit, or rollback when
\* an exception propagates), "finally" (con.close()).  con.offen counts
\* the open connections, con.work is the file as the open transaction
\* sees it, db is the file as a connection opened now would read it.
\* ret holds the running call: pc is the next instruction (0: the call
\* has returned or raised), ok is FALSE while an exception propagates.
\* hist keeps the file from before the call.
\* ------------------------------------------------------------------------
\* variant: con.close() after the check instead of in "finally"
get_modul_id_schritte_ohneFinally == <<"connect", "lookup", "check", "close">>

\* _get_modul_id / get_modul: connect, SELECT ... fetchone(), close in
\* finally, "if not row: raise ValueError"
get_modul_id_schritte == <<"connect", "lookup", "finally", "check">>

\* con = connect(); try: with con: <statements>; finally: con.close()
schreib_schritte == <<"connect", "with", "body", "end_with", "finally">>

\* con = connect(); try: <SELECTs>; finally: con.close()
lese_schritte == <<"connect", "read", "finally">>

Programm(op) ==
  CASE op = "init_if_needed" ->
         <<"connect", "with", "ddl", "count", "ins_sg", "ins_sem",
           "end_with", "finally">>
    [] op \in {"create_modul", "create_pruefungsleistung", "create_belegung",
               "delete_pruefungsleistung", "update_belegung",
               "delete_belegung"} -> schreib_schritte
    [] op = "update_modul" -> get_modul_id_schritte \o <<"sets">> \o schreib_schritte
    [] op = "delete_modul" -> get_modul_id_schritte \o schreib_schritte
    [] op = "update_pruefungsleistung" -> <<"sets">> \o schreib_schritte
    [] op = "load_domain" -> <<"connect", "load", "finally">>
    [] op = "get_modul" -> get_modul_id_schritte
    [] op = "list_pruefungsleistungen" -> get_modul_id_schritte \o lese_schritte
    [] op = "list_module" -> lese_schritte

\* the statements of "with con:" of operation op with arguments a, run on
\* file image w
Rumpf(op, a, w) ==
  CASE op = "create_modul" ->
         create_modul(w, "Algorithms", a[1], a[2], Pruefungsform("KLAUSUR"))
    [] op = "create_pruefungsleistung" ->
         create_pruefungsleistung(w, a[1], "Klausur", None, a[2], a[3])
    [] op = "create_belegung" -> create_belegung(w, a[1], a[2], a[3], a[4])
    [] op = "update_modul" -> update_modul(w, a[1], None, a[2], a[3], None)
    [] op = "delete_modul" -> delete_modul(w, a[1])
    [] op = "update_pruefungsleistung" ->
         update_pruefungsleistung(w, a[1], None, None, a[2], a[3])
    [] op = "delete_pruefungsleistung" -> delete_pruefungsleistung(w, a[1])
    [] op = "update_belegung" -> update_belegung(w, a[1], a[2], a[3], a[4])
    [] op = "delete_belegung" -> delete_belegung(w, a[1], a[2], a[3])

\* the whole operation on file d, as one step
Ergebnis(op, a, d) ==
  CASE op = "init_if_needed" -> Return(init_if_needed(d))
    [] op \in {"load_domain", "get_modul", "list_pruefungsleistungen",
               "list_module"} -> Return(d)
    [] OTHER -> Rumpf(op, a, d)

\* con.execute of an INSERT/UPDATE/DELETE inside "with con:": the change
\* stays in the connection's transaction, the file is as before
con_execute(d, neu) == [db |-> d, work |-> Some(neu)]

\* the handler an exception raised at instruction i reaches: the next
\* "end_with" or "finally" of a block that encloses i; 0 when there is none
Handler(prog, i) ==
  LET H == {j \in (i + 1)..Len(prog) :
              /\ prog[j] \in {"end_with", "finally"}
              /\ \A k \in (i + 1)..(j - 1) : prog[k] \notin {"connect", "with"}}
  IN  IF H = {} THEN 0 ELSE CHOOSE j \in H : \A k \in H : j <= k

\* the call after instruction pc completed / raised / returned early
Weiter(r) ==
  IF r.ok
    THEN [r EXCEPT !.pc = IF @ = Len(Programm(r.op)) THEN 0 ELSE @ + 1]
    ELSE [r EXCEPT !.pc = Handler(Programm(r.op), @)]

Wirf(r) == [r EXCEPT !.ok = FALSE, !.pc = Handler(Programm(r.op), @)]

Fertig(r) == [r EXCEPT !.pc = 0]

Laeuft == ret.op # "none" /\ ret.pc # 0

Anweisung == Programm(ret.op)[ret.pc]

Beginne(op, args) ==
  /\ Idle
  /\ ret' = [op |-> op, ok |-> TRUE, pc |-> 1, args |-> args, row |-> None,
             nr |-> 1]
  /\ hist' = Some([vor |-> db])
  /\ UNCHANGED <<db, sg, con>>

\* con = connect()
SchrittConnect ==
  /\ Laeuft /\ Anweisung = "connect"
  /\ con' = [con EXCEPT !.offen = @ + 1]
  /\ ret' = Weiter(ret)
  /\ UNCHANGED <<db, sg, hist>>

\* con.close(), in "finally" or as a plain statement
SchrittClose ==
  /\ Laeuft /\ Anweisung \in {"finally", "close"}
  /\ con' = [con EXCEPT !.offen = @ - 1]
  /\ ret' = Weiter(ret)
  /\ UNCHANGED <<db, sg, hist>>

\* with con:
SchrittWith ==
  /\ Laeuft /\ Anweisung = "with"
  /\ con' = [con EXCEPT !.work = Some(db)]
  /\ ret' = Weiter(ret)
  /\ UNCHANGED <<db, sg, hist>>

\* the end of "with con:": commit, or rollback when an exception propagates
SchrittEndWith ==
  /\ Laeuft /\ Anweisung = "end_with"
  /\ db' = IF ret.ok THEN Val(con.work) ELSE db
  /\ con' = [con EXCEPT !.work = None]
  /\ ret' = Weiter(ret)
  /\ UNCHANGED <<sg, hist>>

\* SELECT id FROM modul WHERE kuerzel=? LIMIT 1 ... fetchone()
SchrittLookup ==
  /\ Laeuft /\ Anweisung = "lookup"
  /\ ret' = IF db.schema
              THEN Weiter([ret EXCEPT !.row = ModulByKuerzel(db, ret.args[1])])
              ELSE Wirf(ret)
  /\ UNCHANGED <<db, sg, hist, con>>

\* if not row: raise ValueError
SchrittCheck ==
  /\ Laeuft /\ Anweisung = "check"
  /\ ret' = IF IsNone(ret.row) THEN Wirf(ret) ELSE Weiter(ret)
  /\ UNCHANGED <<db, sg, hist, con>>

\* if not sets: return
SchrittSets ==
  /\ Laeuft /\ Anweisung = "sets"
  /\ ret' = IF IsNone(ret.args[2]) /\ IsNone(ret.args[3])
              THEN Fertig(ret) ELSE Weiter(ret)
  /\ UNCHANGED <<db, sg, hist, con>>

\* the statements inside "with con:" of the operations with one
\* INSERT/UPDATE/DELETE; a statement that raises changes nothing
SchrittBody ==
  /\ Laeuft /\ Anweisung = "body"
  /\ LET res == Rumpf(ret.op, ret.args, Val(con.work))
         e == con_execute(db, res.db)
     IN  IF res.ok
           THEN /\ db' = e.db
                /\ con' = [con EXCEPT !.work = e.work]
                /\ ret' = Weiter(ret)
           ELSE /\ ret' = Wirf(ret)
                /\ UNCHANGED <<db, con>>
  /\ UNCHANGED <<sg, hist>>

\* con.executescript(DDL): runs outside the transaction, CREATE TABLE IF
\* NOT EXISTS takes effect in the file at once
SchrittDdl ==
  /\ Laeuft /\ Anweisung = "ddl"
  /\ db' = [db EXCEPT !.schema = TRUE]
  /\ con' = [con EXCEPT !.work = Some([db EXCEPT !.schema = TRUE])]
  /\ ret' = Weiter(ret)
  /\ UNCHANGED <<sg, hist>>

\* SELECT COUNT(*) AS c FROM studiengang; if c == 0: ...
SchrittCount ==
  /\ Laeuft /\ Anweisung = "count"
  /\ ret' = IF Val(con.work).studiengang = {}
              THEN Weiter(ret)
              ELSE [ret EXCEPT !.pc = Handler(Programm(ret.op), @)]
  /\ UNCHANGED <<db, sg, hist, con>>

\* INSERT INTO studiengang ... ("Bachelor Cybersecurity", 180, 8)
SchrittInsSg ==
  /\ Laeuft /\ Anweisung = "ins_sg"
  /\ LET w == Val(con.work)
         e == con_execute(db,
                [w EXCEPT !.studiengang = @ \cup
                   {[id |-> NextId(w.studiengang),
                     name |-> "Bachelor Cybersecurity", gesamt_ects |-> 180,
                     regelstudienzeit |-> 8]}])
     IN  /\ db' = e.db
         /\ con' = [con EXCEPT !.work = e.work]
  /\ ret' = Weiter(ret)
  /\ UNCHANGED <<sg, hist>>

\* for nr in range(1, 9): INSERT INTO semester ... (nr, f"Semester {nr}", sg_id)
SchrittInsSem ==
  /\ Laeuft /\ Anweisung = "ins_sem"
  /\ LET w == Val(con.work)
         sg_id == Val(FetchOne(w.studiengang)).id
         e == con_execute(db,
                [w EXCEPT !.semester = @ \cup
                   {[id |-> NextId(w.semester), nr |-> ret.nr,
                     bezeichnung |-> SemesterBezeichnung(ret.nr),
                     studiengang_id |-> sg_id]}])
     IN  /\ db' = e.db
         /\ con' = [con EXCEPT !.work = e.work]
  /\ ret' = IF ret.nr = 8 THEN Weiter(ret) ELSE [ret EXCEPT !.nr = @ + 1]
  /\ UNCHANGED <<sg, hist>>

\* the SELECTs of load_domain and the wiring of the graph
SchrittLoad ==
  /\ Laeuft /\ Anweisung = "load"
  /\ \E o \in LeistungOrders(db) :
       LET res == load_domain(db, o)
       IN  /\ sg' = res.value
           /\ ret' = IF res.ok THEN Weiter(ret) ELSE Wirf(ret)
  /\ UNCHANGED <<db, hist, con>>

\* the SELECT of a list_... function
SchrittRead ==
  /\ Laeuft /\ Anweisung = "read"
  /\ ret' = IF db.schema THEN Weiter(ret) ELSE Wirf(ret)
  /\ UNCHANGED <<db, sg, hist, con>>

\* a statement inside "with con:" raises sqlite3.Error (database locked,
\* disk full): the exception leaves the block, the statement changed nothing
SchrittFehler ==
  /\ Laeuft /\ Anweisung \in {"body", "count", "ins_sg", "ins_sem"}
  /\ ret' = Wirf(ret)
  /\ UNCHANGED <<db, sg, hist, con>>

\* the script run ends
EndRunSchritt ==
  /\ ret.op # "none" /\ ret.pc = 0
  /\ ret' = NoCall
  /\ sg' = None
  /\ hist' = None
  /\ UNCHANGED <<db, con>>

\* the operation stays within the bounds of the model
Kappe(op, a) ==
  LET d == Ergebnis(op, a, db).db
  IN  /\ Ids(d.modul) \subseteq 1..MaxModulId
      /\ Ids(d.pruefungsleistung) \subseteq 1..MaxLeistungId
      /\ Ids(d.belegung) \subseteq 1..MaxBelegungId

Next_Verbindung ==
  \/ Beginne("init_if_needed", <<>>)
  \/ Beginne("load_domain", <<>>)
  \/ Beginne("list_module", <<>>)
  \/ \E k \in KuerzelDom : Beginne("get_modul", <<k>>)
  \/ \E k \in KuerzelDom : Beginne("list_pruefungsleistungen", <<k>>)
  \/ \E k \in KuerzelDom :
       Kappe("create_modul", <<k, 5>>) /\ Beginne("create_modul", <<k, 5>>)
  \/ \E k \in KuerzelDom :
       /\ Kappe("create_pruefungsleistung", <<k, Some(17), 1>>)
       /\ Beginne("create_pruefungsleistung", <<k, Some(17), 1>>)
  \/ \E nr \in {1, 9}, k \in KuerzelDom :
       /\ Kappe("create_belegung", <<nr, k, "geplant", "">>)
       /\ Beginne("create_belegung", <<nr, k, "geplant", "">>)
  \/ \E k \in KuerzelDom, nk \in Opt({"MAT1"}) :
       Beginne("update_modul", <<k, nk, None>>)
  \/ \E k \in KuerzelDom : Beginne("delete_modul", <<k>>)
  \/ \E id \in 1..MaxLeistungId + 1, n \in {None, Some(50)} :
       Beginne("update_pruefungsleistung", <<id, n, None>>)
  \/ \E id \in 1..MaxLeistungId + 1 : Beginne("delete_pruefungsleistung", <<id>>)
  \/ \E nr \in {1, 9}, k \in KuerzelDom,
        a \in {None, Some("aktuell"), Some("bestanden")} :
       Beginne("update_belegung", <<nr, k, a, None>>)
  \/ \E k \in KuerzelDom : Beginne("delete_belegung", <<1, k, "geplant">>)
  \/ SchrittConnect
  \/ SchrittClose
  \/ SchrittWith
  \/ SchrittEndWith
  \/ SchrittLookup
  \/ SchrittCheck
  \/ SchrittSets
  \/ SchrittBody
  \/ SchrittDdl
  \/ SchrittCount
  \/ SchrittInsSg
  \/ SchrittInsSem
  \/ SchrittLoad
  \/ SchrittRead
  \/ SchrittFehler
  \/ EndRunSchritt

SpecVerbindung == Init /\ [][Next_Verbindung]_vars

\* ------------------------------------------------------------------------
\* SpecDomain : the object graph built through the API of models.py
\* ------------------------------------------------------------------------
InitDomain ==
  /\ db = NoFile
  /\ sg \in {Some(Studiengang("Bachelor Cybersecurity", g, 8)) :
               g \in GesamtEctsDom}
  /\ ret = NoCall
  /\ hist = None
  /\ con = KeineVerbindung

DomAddSemester ==
  /\ Len(G.semester) < MaxDomSemester
  /\ sg' = Some(add_semester(G,
             Semester(Len(G.semester) + 1, <<"Semester", Len(G.semester) + 1>>)))
  /\ UNCHANGED <<db, ret, hist, con>>

DomAddModul(kuerzel, ects) ==
  /\ Len(G.module) < MaxDomModule
  /\ sg' = Some(add_modul(G, Modul("Algorithms", kuerzel, ects, Pruefungsform("KLAUSUR"))))
  /\ UNCHANGED <<db, ret, hist, con>>

DomAddPruefungsleistung(i, note) ==
  /\ AnzahlLeistungen(G) < MaxDomLeistungen
  /\ sg' = Some([G EXCEPT !.module[i] =
             add_pruefungsleistung(@, Pruefungsleistung("Klausur", None, note, 1))])
  /\ UNCHANGED <<db, ret, hist, con>>

DomBelege(s, i, art) ==
  /\ AnzahlBelegt(G) < MaxDomBelegt
  /\ sg' = Some([G EXCEPT !.semester[s] = belege(@, i, art)])
  /\ UNCHANGED <<db, ret, hist, con>>

NextDomain ==
  \/ DomAddSemester
  \/ \E e \in EctsDom : DomAddModul("ALG1", e)
  \/ \E i \in 1..Len(G.module), n \in NotenDom : DomAddPruefungsleistung(i, n)
  \/ \E s \in 1..Len(G.semester), i \in 1..Len(G.module), a \in Arten :
       DomBelege(s, i, a)

SpecDomain == InitDomain /\ [][NextDomain]_vars

\* ------------------------------------------------------------------------
\* SpecKopie : a caller of models.py reads a list property and then changes
\* the list it was handed (append, remove, reorder).  ret holds that list.
\* ------------------------------------------------------------------------
DomLies(op, von, r) ==
  /\ Idle
  /\ ret' = [op |-> op, ok |-> TRUE, von |-> von, liste |-> r.liste,
             eigen |-> r.eigen]
  /\ UNCHANGED <<db, sg, hist, con>>

DomSemester == DomLies("semester", 0, Studiengang_semester(G))

DomModule == DomLies("module", 0, Studiengang_module(G))

DomLeistungen(i) == DomLies("leistungen", i, Modul_leistungen(G.module[i]))

\* what the caller may do to a list l: append x, remove the first element,
\* reverse the order
Reverse(l) == [i \in 1..Len(l) |-> l[Len(l) + 1 - i]]

Veraendert(l, x) ==
  {Append(l, x)} \cup (IF l = <<>> THEN {} ELSE {Tail(l), Reverse(l)})

\* an element the caller may append to a list of the given property
Fremd(op) ==
  IF op = "semester" THEN Semester(9, <<"Semester", 9>>)
  ELSE IF op = "module"
    THEN add_pruefungsleistung(
           Modul("Fremd", "XXX1", 10, Pruefungsform("KLAUSUR")),
           Pruefungsleistung("Klausur", None, Some(10), 1))
  ELSE Pruefungsleistung("Klausur", None, Some(10), 1)

\* the caller changes the list it holds; when that list is the owner's
\* internal list, the owner changes with it
DomVeraendere ==
  /\ ret.op \in {"semester", "module", "leistungen"}
  /\ \E l \in Veraendert(ret.liste, Fremd(ret.op)) :
       /\ l # ret.liste
       /\ Len(l) <= MaxDomListe
       /\ ret' = [ret EXCEPT !.liste = l]
       /\ sg' = IF ret.eigen THEN sg
                ELSE IF ret.op = "semester" THEN Some([G EXCEPT !.semester = l])
                ELSE IF ret.op = "module" THEN Some([G EXCEPT !.module = l])
                ELSE Some([G EXCEPT !.module[ret.von].leistungen = l])
  /\ UNCHANGED <<db, hist, con>>

\* the caller drops the list
DomVergiss ==
  /\ ~Idle
  /\ ret' = NoCall
  /\ UNCHANGED <<db, sg, hist, con>>

Next_Kopie ==
  \/ Idle /\ DomAddSemester
  \/ Idle /\ DomAddModul("ALG1", 5)
  \/ \E i \in 1..Len(G.module), n \in {Some(20), Some(50)} :
       Idle /\ DomAddPruefungsleistung(i, n)
  \/ \E s \in 1..Len(G.semester), i \in 1..Len(G.module) :
       Idle /\ DomBelege(s, i, "aktuell")
  \/ DomSemester
  \/ DomModule
  \/ \E i \in 1..Len(G.module) : DomLeistungen(i)
  \/ DomVeraendere
  \/ DomVergiss

SpecKopie == InitDomain /\ [][Next_Kopie]_vars

\* ------------------------------------------------------------------------
\* Properties of the derived metrics (checked on the graph the caller holds)
\* ------------------------------------------------------------------------
RECURSIVE SumOver(_, _)
\* sum of f[i] over the finite index set I
SumOver(I, f) ==
  IF I = {} THEN 0
  ELSE LET i == CHOOSE x \in I : TRUE IN f[i] + SumOver(I \ {i}, f)

Abs(x) == IF x < 0 THEN -x ELSE x

\* d is p / q rounded to the nearest integer (either neighbour at a tie)
IsRounded(d, p, q) == 2 * Abs(q * d - p) <= q

Held == ~IsNone(sg)

ModulIdx == IF Held THEN 1..Len(G.module) ELSE {}

\* positions of the graded exam results of module m
Benotet(m) == {j \in 1..Len(m.leistungen) : ~IsNone(m.leistungen[j].note)}

\* module m without its ungraded exam results
OhneUnbenotete(m) ==
  [m EXCEPT !.leistungen =
     LET idx == SelectIdx([j \in 1..Len(m.leistungen) |->
                             ~IsNone(m.leistungen[j].note)], 1)
     IN  [j \in 1..Len(idx) |-> m.leistungen[idx[j]]]]

\* C1: a Modul without exam results has no average and status "offen".
C1_LeerOffen ==
  \A i \in ModulIdx :
    G.module[i].leistungen = <<>> =>
      /\ IsNone(Modul_durchschnitt(G.module[i]))
      /\ Modul_status(G.module[i]) = "offen"

C1_Witness ==
  \E i \in ModulIdx :
    /\ G.module[i].leistungen = <<>>
    /\ Modul_status(G.module[i]) = "offen"

\* C2: a Modul with at least one exam result, none of them graded, has no
\* average and status "laufend".
C2_UnbenotetLaufend ==
  \A i \in ModulIdx :
    (G.module[i].leistungen # <<>> /\ Benotet(G.module[i]) = {}) =>
      /\ IsNone(Modul_durchschnitt(G.module[i]))
      /\ Modul_status(G.module[i]) = "laufend"

C2_Witness ==
  \E i \in ModulIdx :
    /\ Len(G.module[i].leistungen) >= 2
    /\ Benotet(G.module[i]) = {}
    /\ Modul_status(G.module[i]) = "laufend"

\* C3: a Modul with a graded exam result is passed, and "abgeschlossen",
\* exactly when its rounded average is <= 4.0, and "laufend" otherwise;
\* its ungraded exam results change neither.
C3_StatusSchwelle ==
  \A i \in ModulIdx :
    Benotet(G.module[i]) # {} =>
      LET m == G.module[i]
          d == Modul_durchschnitt(m)
      IN  /\ ~IsNone(d)
          /\ Modul_ist_bestanden(m) <=> Val(d) <= 400
          /\ Modul_status(m) = "abgeschlossen" <=> Val(d) <= 400
          /\ Modul_status(m) = "laufend" <=> Val(d) > 400
          /\ Modul_status(OhneUnbenotete(m)) = Modul_status(m)
          /\ Modul_ist_bestanden(OhneUnbenotete(m)) = Modul_ist_bestanden(m)

\* an average of exactly 4.00 next to an ungraded result: passed
C3_Witness ==
  \E i \in ModulIdx :
    /\ Benotet(G.module[i]) # {}
    /\ Benotet(G.module[i]) # 1..Len(G.module[i].leistungen)
    /\ Modul_durchschnitt(G.module[i]) = Some(400)
    /\ Modul_status(G.module[i]) = "abgeschlossen"

\* a failing average
C3_WitnessLaufend ==
  \E i \in ModulIdx :
    /\ Benotet(G.module[i]) # {}
    /\ Val(Modul_durchschnitt(G.module[i])) > 400
    /\ Modul_status(G.module[i]) = "laufend"

\* C4: the average of a Modul is the mean of the grades that are present,
\* rounded to 2 decimals, and is absent exactly when no grade is present.
C4_Mittelwert ==
  \A i \in ModulIdx :
    LET m == G.module[i]
        B == Benotet(m)
        summe == SumOver(B, [j \in B |-> Val(m.leistungen[j].note)])
        d == Modul_durchschnitt(m)
    IN  /\ IsNone(d) <=> B = {}
        /\ B # {} => IsRounded(Val(d), 10 * summe, Cardinality(B))

\* grades 2.0, 3.0, 3.0 and nothing else: 2.67; with an ungraded one: 2.50
C4_Witness ==
  \E i \in ModulIdx :
    LET m == G.module[i]
    IN  /\ Cardinality(Benotet(m)) = 2
        /\ Len(m.leistungen) = 3
        /\ Modul_durchschnitt(m) = Some(250)

C4_WitnessGerundet ==
  \E i \in ModulIdx : Modul_durchschnitt(G.module[i]) = Some(267)

\* C5: the weighted average of the Studiengang is sum(average * credits) /
\* sum(credits) over the modules that have an average, rounded to 2
\* decimals; absent when no module has an average or the credits sum to 0.
C5_Gewichtet ==
  Held =>
    LET M == {i \in ModulIdx : ~IsNone(Modul_durchschnitt(G.module[i]))}
        E == SumOver(M, [i \in M |-> G.module[i].ects])
        W == SumOver(M, [i \in M |->
               Val(Modul_durchschnitt(G.module[i])) * G.module[i].ects])
        D == Studiengang_durchschnitt(G)
    IN  /\ IsNone(D) <=> (M = {} \/ E = 0)
        /\ ~IsNone(D) => IsRounded(Val(D), W, E)

\* credits 5 / average 2.0 and credits 10 / average 3.0 give 2.67
C5_Witness ==
  /\ Held
  /\ \E i, j \in ModulIdx :
       /\ G.module[i].ects = 5
       /\ Modul_durchschnitt(G.module[i]) = Some(200)
       /\ G.module[j].ects = 10
       /\ Modul_durchschnitt(G.module[j]) = Some(300)
  /\ Studiengang_durchschnitt(G) = Some(267)

\* a module without average next to one with an average
C5_WitnessOhne ==
  /\ Held
  /\ \E i, j \in ModulIdx :
       /\ IsNone(Modul_durchschnitt(G.module[i]))
       /\ G.module[i].ects > 0
       /\ ~IsNone(Modul_durchschnitt(G.module[j]))
  /\ ~IsNone(Studiengang_durchschnitt(G))

\* modules with an average whose credits sum to 0
C5_WitnessNull ==
  /\ Held
  /\ \E i \in ModulIdx : ~IsNone(Modul_durchschnitt(G.module[i]))
  /\ \A i \in ModulIdx : G.module[i].ects = 0
  /\ IsNone(Studiengang_durchschnitt(G))

\* two ratios denote the same number
RatEq(a, b) == a[1] * b[2] = b[1] * a[2]

\* ratio a >= ratio b (denominators positive)
RatGeq(a, b) == a[1] * b[2] >= b[1] * a[2]

\* references to module i held by the semesters of graph g
Verweise(g, i) ==
  {<<s, l, k>> \in (1..Len(g.semester)) \X {"geplant", "bestanden"} \X (1..MaxDomBelegt + MaxBelegungId) :
     LET liste == IF l = "geplant" THEN g.semester[s].geplante_module
                  ELSE g.semester[s].bestandene_module
     IN  k <= Len(liste) /\ liste[k] = i}

C6_WitnessNull ==
  /\ Held
  /\ G.gesamt_ects = 0
  /\ ects_bestanden(G) > 0
  /\ Studiengang_fortschritt(G) = <<0, 1>>

\* ------------------------------------------------------------------------
\* Properties of the storage and of the loaded graph
\* ------------------------------------------------------------------------
\* every graph load_domain can return on file d
Geladen(d) ==
  {load_domain(d, o) : o \in LeistungOrders(d)}

\* graph g holds exactly the modul rows of d, and its semesters reference
\* nothing else
NurGespeicherte(g, d) ==
  LET scan == ById(d.modul)
  IN  /\ Len(g.module) = Len(scan)
      /\ \A i \in 1..Len(scan) :
           /\ g.module[i].kuerzel = scan[i].kuerzel
           /\ g.module[i].ects = scan[i].ects
           /\ g.module[i].name = scan[i].name
      /\ \A s \in 1..Len(g.semester) :
           /\ \A k \in 1..Len(g.semester[s].geplante_module) :
                g.semester[s].geplante_module[k] \in 1..Len(scan)
           /\ \A k \in 1..Len(g.semester[s].bestandene_module) :
                g.semester[s].bestandene_module[k] \in 1..Len(scan)
      /\ AnzahlBelegt(g) = Cardinality(d.belegung)
      /\ AnzahlLeistungen(g) = Cardinality(d.pruefungsleistung)

\* C9: when delete_modul(code) returns, one modul row with that code is
\* gone together with exactly the exam results and enrollments that
\* referenced it; all other rows are as before; load_domain then succeeds
\* and its graph holds the remaining modules only.
C9_DeleteCascade ==
  [][\A k \in KuerzelDom :
       (/\ Idle
        /\ ret' = [op |-> "delete_modul", ok |-> TRUE]
        /\ DeleteModul(k)) =>
         \E m \in db.modul :
           /\ m.kuerzel = k
           /\ db'.modul = db.modul \ {m}
           /\ db'.pruefungsleistung =
                {p \in db.pruefungsleistung : p.modul_id # m.id}
           /\ db'.belegung = {b \in db.belegung : b.modul_id # m.id}
           /\ db'.studiengang = db.studiengang
           /\ db'.semester = db.semester
           /\ \A p \in db'.pruefungsleistung : p.modul_id \in Ids(db'.modul)
           /\ \A b \in db'.belegung : b.modul_id \in Ids(db'.modul)
           /\ \A r \in Geladen(db') :
                r.ok /\ NurGespeicherte(Val(r.value), db')]_vars

\* delete_modul has returned and rows of another module are still there
C9_Witness ==
  /\ ret = [op |-> "delete_modul", ok |-> TRUE]
  /\ Cardinality(db.modul) = 1
  /\ db.pruefungsleistung # {}
  /\ db.belegung # {}

\* C10: once init_if_needed has run, storage holds exactly one program row
\* and exactly the semesters 1..8, whatever calls follow; init_if_needed on
\* a file that holds a program changes no row.
C10_Singleton ==
  /\ [](db.schema =>
          /\ Cardinality(db.studiengang) = 1
          /\ Cardinality(db.semester) = 8
          /\ {r.nr : r \in db.semester} = 1..8
          /\ \A r \in db.semester : r.studiengang_id \in Ids(db.studiengang))
  /\ [][(Idle /\ ret'.op = "init_if_needed" /\ InitIfNeeded /\ db.studiengang # {})
          => db' = db]_vars

\* init_if_needed has run again on a file that holds modules
C10_Witness ==
  /\ ret = [op |-> "init_if_needed", ok |-> TRUE]
  /\ db.modul # {}
  /\ db.pruefungsleistung # {}
  /\ Cardinality(db.studiengang) = 1

\* sum of the credits of the modul rows that the belegung rows in B reference
EctsDerBelegungen(d, B) ==
  SumOver(B, [b \in B |->
    (CHOOSE m \in d.modul : m.id = b.modul_id).ects])

\* C7: from one load to the next, when every module that was passed is
\* still passed with the same credits, progress has not decreased; and
\* creating an enrollment does not change progress.
C7_Monoton ==
  /\ [][(Idle /\ ret' = [op |-> "load_domain", ok |-> TRUE] /\ ~IsNone(hist)
           /\ Val(hist).bestanden \subseteq Bestandene(db, Val(sg')))
          => RatGeq(Studiengang_fortschritt(Val(sg')), Val(hist).fortschritt)]_vars
  /\ [][(Idle /\ ret' = [op |-> "create_belegung", ok |-> TRUE]) =>
            \A r1 \in Geladen(db), r2 \in Geladen(db') :
              /\ r2.ok
              /\ r1.ok => RatEq(Studiengang_fortschritt(Val(r2.value)),
                               Studiengang_fortschritt(Val(r1.value)))]_vars

\* the dashboard showed one passed module, by now a second one is passed
\* and the first is enrolled in two semesters: the next load compares the two
C7_Witness ==
  /\ Idle
  /\ ~IsNone(hist)
  /\ Cardinality(Val(hist).bestanden) = 1
  /\ Cardinality({b.semester_id : b \in db.belegung}) = 2
  /\ Cardinality({b.modul_id : b \in db.belegung}) = 1
  /\ \A r \in Geladen(db) :
       /\ r.ok
       /\ Cardinality(Bestandene(db, Val(r.value))) = 2
       /\ Val(hist).bestanden \subseteq Bestandene(db, Val(r.value))
       /\ \E b \in db.belegung : \E x \in Val(hist).bestanden : b.modul_id = x[1]

\* C8: after load_domain, for every semester: planned credits are the
\* credits of the modules enrolled there as "geplant", earned credits
\* those of the modules enrolled there as "aktuell" that are passed,
\* progress is earned / planned and 0 when nothing is planned.
C8_Semester ==
  (ret = [op |-> "load_domain", ok |-> TRUE]) =>
    /\ Len(G.semester) = Cardinality(db.semester)
    /\ \A s \in db.semester :
         LET sem == G.semester[PosOf(BySemNr(db.semester), s.id)]
             geplant == {b \in db.belegung :
                           b.semester_id = s.id /\ b.art = "geplant"}
             erreicht == {b \in db.belegung :
                            /\ b.semester_id = s.id
                            /\ b.art = "aktuell"
                            /\ <<b.modul_id,
                                 (CHOOSE m \in db.modul : m.id = b.modul_id).ects>>
                                  \in Bestandene(db, G)}
         IN  /\ sem.nummer = s.nr
             /\ geplante_ects(G, sem) = EctsDerBelegungen(db, geplant)
             /\ erreichte_ects(G, sem) = EctsDerBelegungen(db, erreicht)
             /\ geplant # {} =>
                  RatEq(Semester_fortschritt(G, sem),
                        <<EctsDerBelegungen(db, erreicht),
                          EctsDerBelegungen(db, geplant)>>)
             /\ geplant = {} => RatEq(Semester_fortschritt(G, sem), <<0, 1>>)

\* a passed module of 5 credits, planned in semester 1 and current in
\* semester 2: semester 1 shows progress 0 of 5 planned, semester 2 earns 5
C8_Witness ==
  /\ ret = [op |-> "load_domain", ok |-> TRUE]
  /\ \E i \in ModulIdx :
       /\ Modul_ist_bestanden(G.module[i])
       /\ G.module[i].ects = 5
       /\ G.semester[1].geplante_module = <<i>>
       /\ G.semester[1].bestandene_module = <<>>
       /\ G.semester[2].bestandene_module = <<i>>
       /\ geplante_ects(G, G.semester[1]) = 5
       /\ Semester_fortschritt(G, G.semester[1]) = <<0, 5>>
       /\ erreichte_ects(G, G.semester[2]) = 5

\* the belegung rows of file d for the semester and module that the
\* arguments (semester_nr, kuerzel) resolve to, of kind art
BelegungZeilen(d, semester_nr, kuerzel, art) ==
  IF IsNone(SemesterByNr(d, semester_nr)) \/ IsNone(ModulByKuerzel(d, kuerzel))
    THEN {}
    ELSE {b \in d.belegung :
            /\ b.semester_id = Val(SemesterByNr(d, semester_nr)).id
            /\ b.modul_id = Val(ModulByKuerzel(d, kuerzel)).id
            /\ b.art = art}

\* C11: create_belegung for a (semester, module, kind) that is already
\* stored returns without raising and leaves the file as it was, so exactly
\* one row for the triple is stored, with the comment it had.
C11_DoppeltIgnoriert ==
  (ret.op = "create_belegung" /\ ~IsNone(hist)) =>
    LET a == Val(hist).args
        vor == Val(hist).vor
    IN  BelegungZeilen(vor, a[1], a[2], a[3]) # {} =>
          /\ ret.ok
          /\ db = vor
          /\ Cardinality(BelegungZeilen(db, a[1], a[2], a[3])) = 1

\* the same triple was inserted again with another comment; the stored row
\* keeps the first comment
C11_Witness ==
  /\ ret = [op |-> "create_belegung", ok |-> TRUE]
  /\ ~IsNone(hist)
  /\ Val(hist).args = <<1, "ALG1", "geplant", "Wdh">>
  /\ \E b \in BelegungZeilen(Val(hist).vor, 1, "ALG1", "geplant") :
       b.kommentar = ""
  /\ db = Val(hist).vor

\* C12: no two stored modules have the same kuerzel.
C12_KuerzelEindeutig ==
  \A a, b \in db.modul : a.kuerzel = b.kuerzel => a = b

\* the module code / semester number is not in the file
OhneModul(k) == \A m \in db.modul : m.kuerzel # k

OhneSemester(nr) == \A r \in db.semester : r.nr # nr

\* C13: a gateway operation that is given a module code, a semester
\* number or an exam-result id that is not in storage raises and leaves
\* storage unchanged.
C13_NichtGefunden ==
  [][(Idle /\ ret'.op # "none") =>
      /\ \A k \in KuerzelDom, n \in NotenForm, v \in VersuchDom :
           (OhneModul(k) /\ CreatePruefungsleistung(k, n, v))
             => (~ret'.ok /\ db' = db)
      /\ \A sa \in BelegungDom, k \in KuerzelDom, c \in KommentarDom :
           ((OhneModul(k) \/ OhneSemester(sa[1]))
              /\ CreateBelegung(sa[1], k, sa[2], c))
             => (~ret'.ok /\ db' = db)
      /\ \A k \in KuerzelDom, nk \in Opt(KuerzelDom), e \in Opt(EctsForm) :
           (OhneModul(k) /\ UpdateModul(k, nk, e)) => (~ret'.ok /\ db' = db)
      /\ \A k \in KuerzelDom :
           (OhneModul(k) /\ DeleteModul(k)) => (~ret'.ok /\ db' = db)
      /\ \A id \in 1..MaxLeistungId + 1, n \in NotenForm, v \in Opt(VersuchDom) :
           (id \notin Ids(db.pruefungsleistung)
              /\ UpdatePruefungsleistung(id, n, v))
             => (~ret'.ok /\ db' = db)
      /\ \A id \in 1..MaxLeistungId + 1 :
           (id \notin Ids(db.pruefungsleistung) /\ DeletePruefungsleistung(id))
             => (~ret'.ok /\ db' = db)
      /\ \A nr \in {1, 2, 9}, k \in KuerzelDom, u \in BelegungUpdDom :
           ((OhneModul(k) \/ OhneSemester(nr))
              /\ UpdateBelegung(nr, k, u[1], u[2]))
             => (~ret'.ok /\ db' = db)
      /\ \A sa \in BelegungDom, k \in KuerzelDom :
           ((OhneModul(k) \/ OhneSemester(sa[1]))
              /\ DeleteBelegung(sa[1], k, sa[2]))
             => (~ret'.ok /\ db' = db)]_vars

\* C16: update_pruefungsleistung with note = None leaves the exam result
\* without a grade.
C16_NoteGeleert ==
  [][\A id \in 1..MaxLeistungId + 1, v \in Opt(VersuchDom) :
       (/\ Idle
        /\ ret'.op = "update_pruefungsleistung"
        /\ id \in Ids(db.pruefungsleistung)
        /\ UpdatePruefungsleistung(id, None, v))
         => \A p \in db'.pruefungsleistung : p.id = id => IsNone(p.note)]_vars

\* file d holds an enrollment or exam result whose semester or module is
\* not among the semesters / modules of the program that load_domain loads
Verwaist(d) ==
  LET sgIds == IF d.studiengang = {} THEN {}
               ELSE {Val(FetchOne(d.studiengang)).id}
      sems == {r.id : r \in {x \in d.semester : x.studiengang_id \in sgIds}}
      mods == {r.id : r \in {x \in d.modul : x.studiengang_id \in sgIds}}
  IN  \/ \E b \in d.belegung : b.semester_id \notin sems \/ b.modul_id \notin mods
      \/ \E q \in d.pruefungsleistung : q.modul_id \notin mods

\* C14: load_domain on a file with such a row raises and yields no graph;
\* a file written through the gateway only never holds such a row, and
\* load_domain succeeds on it once the program exists.
C14_Integritaet ==
  /\ ret.op = "load_domain" =>
       /\ Verwaist(db) => ~ret.ok
       /\ ~ret.ok => IsNone(sg)
       /\ ret.ok => ~IsNone(sg)
  /\ IsNone(hist) =>
       /\ ~Verwaist(db)
       /\ (ret.op = "load_domain" /\ db.studiengang # {}) => ret.ok

\* load_domain has raised on a file whose enrollment references a module
\* that is not stored
C14_Witness ==
  /\ ret = [op |-> "load_domain", ok |-> FALSE]
  /\ IsNone(sg)
  /\ db.modul # {}
  /\ \E b \in db.belegung : b.modul_id \notin Ids(db.modul)

\* load_domain has succeeded on a gateway-written file with an enrollment
\* and an exam result
C14_WitnessGateway ==
  /\ ret = [op |-> "load_domain", ok |-> TRUE]
  /\ IsNone(hist)
  /\ db.belegung # {}
  /\ db.pruefungsleistung # {}

\* C17: after create_modul(name, code, credits, form) followed by
\* create_pruefungsleistung(code, ..., grade, attempt), load_domain succeeds
\* and its graph holds a module with that name, code, credits and form that
\* carries exactly that exam result; the graph shows the stored rows only.
C17_Rundreise ==
  (ret.op = "load_domain" /\ ~IsNone(hist)) =>
    LET h == Val(hist)
    IN  ~IsNone(h.leistung) =>
          /\ ret.ok
          /\ NurGespeicherte(G, db)
          /\ \E i \in ModulIdx :
               G.module[i] =
                 add_pruefungsleistung(
                   Modul(h.modul[1], h.modul[2], h.modul[3],
                         Pruefungsform(h.modul[4])),
                   Pruefungsleistung(Val(h.leistung)[1], Val(h.leistung)[2],
                                     Val(h.leistung)[3], Val(h.leistung)[4]))

\* the metrics of graph g: earned credits, progress, weighted average, and
\* average and status of every module
Kennzahlen(g) ==
  <<ects_bestanden(g), Studiengang_fortschritt(g), Studiengang_durchschnitt(g),
    [i \in 1..Len(g.module) |->
       <<Modul_durchschnitt(g.module[i]), Modul_status(g.module[i])>>]>>

\* C18: when the holder of a list returned by Studiengang.semester,
\* Studiengang.module or Modul.leistungen appends to it, removes from it or
\* reorders it, the owner's lists and every metric stay as they were.
C18_Kopien ==
  [][(ret.op \in {"semester", "module", "leistungen"} /\ ret'.op = ret.op
        /\ ret'.liste # ret.liste)
       => (sg' = sg /\ Kennzahlen(Val(sg')) = Kennzahlen(G))]_vars

\* the list read from Modul.leistungen of a passed module has lost its
\* only element; the module still has its exam result and is passed
C18_Witness ==
  /\ ret.op = "leistungen"
  /\ ret.liste = <<>>
  /\ Len(G.module[ret.von].leistungen) = 1
  /\ Modul_status(G.module[ret.von]) = "abgeschlossen"

RECURSIVE NachVersuchUndId(_)
\* rows by ascending versuch_nr, rows of equal versuch_nr by ascending id
\* (ids grow with every insert, so this is the order of creation)
NachVersuchUndId(rows) ==
  IF rows = {} THEN <<>>
  ELSE LET r == CHOOSE x \in rows : \A y \in rows :
                  \/ x.versuch_nr < y.versuch_nr
                  \/ (x.versuch_nr = y.versuch_nr /\ x.id <= y.id)
       IN  <<r>> \o NachVersuchUndId(rows \ {r})

Schreiber ==
  {"init_if_needed", "create_modul", "update_modul", "delete_modul",
   "create_pruefungsleistung", "update_pruefungsleistung",
   "delete_pruefungsleistung", "create_belegung", "update_belegung",
   "delete_belegung"}

\* C15: every write operation is atomic: when it has returned, the file
\* holds all of its changes; when it has raised, the file is the file
\* from before the call.
C15_Atomar ==
  (ret.op \in Schreiber /\ ret.pc = 0) =>
    IF ret.ok
      THEN db = Ergebnis(ret.op, ret.args, Val(hist).vor).db
      ELSE db = Val(hist).vor

\* C19: never more than one connection is open, and none is open when no
\* operation is running (before a call, and after it returned or raised).
C19_Verbindungen ==
  /\ con.offen <= 1
  /\ ~Laeuft => con.offen = 0

\* update_modul has raised ValueError after its lookup, an operation has
\* raised inside "with con:"; every connection is closed again
C19_Witness ==
  /\ ret.op \in {"update_modul", "create_pruefungsleistung"}
  /\ ret.pc = 0
  /\ ~ret.ok
  /\ con.offen = 0
  /\ db.schema

\* C21: at most one belegung row is stored per (semester, module, kind) and
\* every stored kind is 'geplant' or 'aktuell'; and update_belegung for a
\* (semester, module) pair that has a planned and a current row changes at
\* most one row and leaves the other as it was.
C21_UpdateEineZeile ==
  /\ UniqueBelegung(db.belegung)
  /\ \A b \in db.belegung : b.art \in {"geplant", "aktuell"}
  /\ (ret.op = "update_belegung" /\ ~IsNone(hist)) =>
       LET a == Val(hist).args
           vor == Val(hist).vor
       IN  (/\ BelegungZeilen(vor, a[1], a[2], "geplant") # {}
            /\ BelegungZeilen(vor, a[1], a[2], "aktuell") # {}) =>
             Cardinality(vor.belegung \ db.belegung) <= 1

====
